---------------------------- MODULE Spec2Model ----------------------------
(***************************************************************************)
(* Model of markdown_to_html.py: the outline extractor, the nested-list    *)
(* sidebar renderer, the page assembler and the batch driver main().       *)
(*                                                                         *)
(* Text is modelled as a sequence of one-character strings, so that        *)
(* split, strip, lower, the regular expressions and replace are computed   *)
(* character by character as the Python code computes them.  The sidebar   *)
(* fragment is modelled as the sequence of the tags the code appends.      *)
(***************************************************************************)
EXTENDS Integers, Sequences, FiniteSets, TLC

(***************************************************************************)
(* Bounds of the model.                                                    *)
(***************************************************************************)
\* longest run of '#' at the start of a generated line (7 is one past the
\* longest marker the header pattern accepts)
MaxHashes == 7
\* most lines in a generated document
MaxLines == 2
\* most markdown files in the working directory of a batch run
MaxDocs == 3

(***************************************************************************)
(* Characters and the string primitives of Python the code relies on.      *)
(***************************************************************************)
UpperCase ==
    <<"A","B","C","D","E","F","G","H","I","J","K","L","M",
      "N","O","P","Q","R","S","T","U","V","W","X","Y","Z">>

LowerCase ==
    <<"a","b","c","d","e","f","g","h","i","j","k","l","m",
      "n","o","p","q","r","s","t","u","v","w","x","y","z">>

Digits == {"0","1","2","3","4","5","6","7","8","9"}

Range(f) == { f[x] : x \in DOMAIN f }

\* str.isspace() / the regex class \s
IsSpace(c) == c \in {" ", "\t", "\n", "\r", "\f"}

IsUpper(c) == c \in Range(UpperCase)

IsLower(c) == c \in Range(LowerCase)

IsCased(c) == IsUpper(c) \/ IsLower(c)

\* the regex class \w
IsWord(c) == IsCased(c) \/ c \in Digits \/ c = "_"

LowerChar(c) ==
    IF IsUpper(c)
    THEN LowerCase[CHOOSE k \in DOMAIN UpperCase : UpperCase[k] = c]
    ELSE c

UpperChar(c) ==
    IF IsLower(c)
    THEN UpperCase[CHOOSE k \in DOMAIN LowerCase : LowerCase[k] = c]
    ELSE c

\* str.lower()
Lower(s) == [k \in 1..Len(s) |-> LowerChar(s[k])]

\* str.title(): a cased character is upper-cased when it follows an uncased
\* character (or starts the string) and lower-cased otherwise
TitleCase(s) ==
    [k \in 1..Len(s) |->
        IF k > 1 /\ IsCased(s[k-1]) THEN LowerChar(s[k]) ELSE UpperChar(s[k])]

\* str.replace(old, new) for single characters
Replace(s, old, new) == [k \in 1..Len(s) |-> IF s[k] = old THEN new ELSE s[k]]

FirstNonSpace(s) ==
    IF \E k \in 1..Len(s) : ~IsSpace(s[k])
    THEN CHOOSE k \in 1..Len(s) :
            ~IsSpace(s[k]) /\ \A j \in 1..(k-1) : IsSpace(s[j])
    ELSE Len(s) + 1

LastNonSpace(s) ==
    IF \E k \in 1..Len(s) : ~IsSpace(s[k])
    THEN CHOOSE k \in 1..Len(s) :
            ~IsSpace(s[k]) /\ \A j \in (k+1)..Len(s) : IsSpace(s[j])
    ELSE 0

\* str.strip()
Strip(s) == SubSeq(s, FirstNonSpace(s), LastNonSpace(s))

\* str.split(sep) for a single-character separator
RECURSIVE Split(_, _)
Split(s, sep) ==
    IF \E k \in 1..Len(s) : s[k] = sep
    THEN LET k == CHOOSE k \in 1..Len(s) :
                    s[k] = sep /\ \A j \in 1..(k-1) : s[j] # sep
         IN  <<SubSeq(s, 1, k-1)>> \o Split(SubSeq(s, k+1, Len(s)), sep)
    ELSE <<s>>

\* sep.join(parts)
RECURSIVE Join(_, _)
Join(parts, sep) ==
    IF parts = <<>> THEN <<>>
    ELSE IF Len(parts) = 1 THEN parts[1]
    ELSE parts[1] \o <<sep>> \o Join(Tail(parts), sep)

\* number of '#' characters at the start of s
LeadingHashes(s) ==
    IF \E k \in 1..Len(s) : s[k] # "#"
    THEN (CHOOSE k \in 1..Len(s) : s[k] # "#" /\ \A j \in 1..(k-1) : s[j] = "#") - 1
    ELSE Len(s)

Min(a, b) == IF a <= b THEN a ELSE b

(***************************************************************************)
(* extract_toc_from_markdown                                               *)
(***************************************************************************)
\* the pattern with the marker length left unbounded, r'^(#+)\s+(.*)'
HeaderMarkers_Unbounded(s) ==
    { k \in 1..LeadingHashes(s) : Len(s) > k /\ IsSpace(s[k+1]) }

\* header_pattern = r'^(#{1,6})\s+(.*)' : the marker counts the regex engine
\* can settle on, i.e. k in 1..6 leading '#' directly followed by whitespace
HeaderMarkers(s) ==
    { k \in 1..Min(LeadingHashes(s), 6) : Len(s) > k /\ IsSpace(s[k+1]) }

HeaderMatches(s) == HeaderMarkers(s) # {}

\* len(match.group(1)): the greedy quantifier keeps the longest marker
HeaderLevel(s) == CHOOSE k \in HeaderMarkers(s) : \A j \in HeaderMarkers(s) : j <= k

\* match.group(2): what is left after the marker and the greedy \s+
HeaderText(s) ==
    LET rest == SubSeq(s, HeaderLevel(s) + 1, Len(s))
    IN  SubSeq(rest, FirstNonSpace(rest), Len(rest))

\* re.sub(r'[^\w\s-]', '', text)
StripSpecial(s) == SelectSeq(s, LAMBDA c : IsWord(c) \/ IsSpace(c) \/ c = "-")

\* slug = re.sub(r'[^\w\s-]', '', title.lower()).strip().replace(' ', '-')
Slug(title) == Replace(Strip(StripSpecial(Lower(title))), " ", "-")

\* the dictionary appended for one matching line
HeadingRecord(line) ==
    LET title == Strip(HeaderText(Strip(line)))
    IN  [level |-> HeaderLevel(Strip(line)), title |-> title, slug |-> Slug(title)]

RECURSIVE TocOfLines(_)
TocOfLines(lines) ==
    IF lines = <<>> THEN <<>>
    ELSE (IF HeaderMatches(Strip(lines[1])) THEN <<HeadingRecord(lines[1])>> ELSE <<>>)
         \o TocOfLines(Tail(lines))

extract_toc_from_markdown(markdown_content) ==
    TocOfLines(Split(markdown_content, "\n"))

(***************************************************************************)
(* generate_sidebar_toc: the fragment is the sequence of appended tags.    *)
(* cls records which literal of the code the tag comes from; rec is the    *)
(* index of the heading record a list item links to (0 for the others).    *)
(***************************************************************************)
Tag(t, c, r) == [tag |-> t, cls |-> c, rec |-> r]

\* "<p>No table of contents available</p>"
NoTocFragment == << Tag("p", "no-toc", 0) >>

\* '<div class="toc-title">Contents</div>\n<ul class="toc-list">\n'
SidebarHead == << Tag("div", "toc-title", 0), Tag("ul", "toc-list", 0) >>

\* '    <ul class="nested-toc">\n'
NestedOpen == << Tag("ul", "nested-toc", 0) >>

\* '    </ul>\n</li>\n'
NestedClose == << Tag("/ul", "nested-toc", 0), Tag("/li", "nested-toc", 0) >>

\* f'    <li><a href="#{item["slug"]}">{item["title"]}</a>'
ListItem(r) == << Tag("li", "item", r), Tag("a", "item", r), Tag("/a", "item", r) >>

\* '</li>\n</ul>\n'
SidebarTail == << Tag("/li", "toc-list", 0), Tag("/ul", "toc-list", 0) >>

RECURSIVE Repeat(_, _)
Repeat(chunk, n) == IF n <= 0 THEN <<>> ELSE chunk \o Repeat(chunk, n - 1)

\* range(level - current_level) of the opening branch
OpenCount(level, current) == level - current

\* the closing branch closing a single wrapper whatever the level drop
CloseCount_One(level, current) == 1

\* range(current_level - level) of the closing branch
CloseCount(level, current) == current - level

\* what one iteration of the loop appends before the list item
Nesting(level, current) ==
    IF level > current THEN Repeat(NestedOpen, OpenCount(level, current))
    ELSE IF level < current THEN Repeat(NestedClose, CloseCount(level, current))
    ELSE <<>>

\* the closing loop running range(current_level)
FinalCloseCount_All(current) == current

\* range(current_level - 1) of the closing loop after the records
FinalCloseCount(current) == current - 1

\* what is appended after the last record
Closing(current) == Repeat(NestedClose, FinalCloseCount(current)) \o SidebarTail

\* the loop from record r on, with the fragment and level reached so far
RECURSIVE SidebarFrom(_, _, _, _)
SidebarFrom(toc, r, html, current) ==
    IF r > Len(toc) THEN html \o Closing(current)
    ELSE SidebarFrom(toc, r + 1,
                     html \o Nesting(toc[r].level, current) \o ListItem(r),
                     toc[r].level)

generate_sidebar_toc(toc) ==
    IF toc = <<>> THEN NoTocFragment ELSE SidebarFrom(toc, 1, SidebarHead, 1)

(***************************************************************************)
(* convert_markdown_to_html: title, output name and the written page.      *)
(***************************************************************************)
\* re.match(r'^#\s+(.+)', markdown_content, re.MULTILINE): re.match tries the
\* pattern at the start of the text only.  j is the last character of \s+;
\* '.' matches anything but a newline, so (.+) needs one such character next.
TitleSplits(s) ==
    { j \in 2..(Len(s) - 1) :
        s[1] = "#" /\ (\A k \in 2..j : IsSpace(s[k])) /\ s[j+1] # "\n" }

TitleMatches(s) == TitleSplits(s) # {}

\* title_match.group(1): \s+ is greedy, (.+) runs to the end of that line
TitleGroup(s) ==
    LET j    == CHOOSE j \in TitleSplits(s) : \A k \in TitleSplits(s) : k <= j
        rest == SubSeq(s, j + 1, Len(s))
    IN  Split(rest, "\n")[1]

\* Path(input_file).stem
PathStem(name) ==
    IF \E k \in 2..Len(name) : name[k] = "."
    THEN LET k == CHOOSE k \in 2..Len(name) :
                    name[k] = "." /\ \A j \in (k+1)..Len(name) : name[j] # "."
         IN  SubSeq(name, 1, k - 1)
    ELSE name

\* Path(input_file).stem.replace('_', ' ').title()
FallbackTitle(name) == TitleCase(Replace(PathStem(name), "_", " "))

PageTitle(name, markdown_content) ==
    IF TitleMatches(markdown_content)
    THEN TitleGroup(markdown_content)
    ELSE FallbackTitle(name)

Str_readme == <<"r","e","a","d","m","e">>

Str_readme_en == <<"r","e","a","d","m","e","_","e","n">>

Str_contributing == <<"c","o","n","t","r","i","b","u","t","i","n","g">>

Str_index == <<"i","n","d","e","x">>

Str_index_en == <<"i","n","d","e","x","_","e","n">>

Ext_html == <<".","h","t","m","l">>

Ext_md == <<".","m","d">>

\* the comparisons made on the stem as spelled
FoldedStem_CaseSensitive(filename) == filename

\* filename.lower() of the three comparisons
FoldedStem(filename) == Lower(filename)

\* the if / elif chain on the stem
OutputStem(filename) ==
    IF FoldedStem(filename) = Str_readme THEN Str_index
    ELSE IF FoldedStem(filename) = Str_readme_en THEN Str_index_en
    ELSE IF FoldedStem(filename) = Str_contributing THEN Str_contributing
    ELSE filename

\* f"{filename}.html" inside output_dir
OutputName(name) == OutputStem(PathStem(name)) \o Ext_html

\* the placeholders filled into html_template
Page(name, markdown_content) ==
    [ title   |-> PageTitle(name, markdown_content),
      sidebar |-> generate_sidebar_toc(extract_toc_from_markdown(markdown_content)),
      body    |-> markdown_content ]

\* a file opened for writing whose write did not complete
PartialPage == [ title |-> <<>>, sidebar |-> <<>>, body |-> <<>> ]

\* the output directory after open(output_file, 'w') and f.write(page)
WriteFile(dir, name, page) ==
    [ n \in (DOMAIN dir) \cup {name} |-> IF n = name THEN page ELSE dir[n] ]

\* one line of standard output: what it reports, the file it names, and the
\* count it carries (0 when it carries none)
Line(kind, file, n) == [ kind |-> kind, file |-> file, n |-> n ]

(***************************************************************************)
(* State.                                                                  *)
(***************************************************************************)
VARIABLES
    pc,               \* position of main()
    env,              \* what the file system lets the run do
    cwd,              \* the *.md files of the working directory, in glob order
    markdown_files,   \* the list main() iterates over
    idx,              \* index of the next md_file
    stdout,           \* the lines printed so far
    docs,             \* the output directory: file name -> page
    cpc,              \* position of convert_markdown_to_html
    input_file,       \* its argument
    markdown_content, \* the text read from input_file
    toc,              \* the outline
    title,            \* the page title
    html,             \* the sidebar fragment built so far
    current_level,    \* generate_sidebar_toc's current_level
    item,             \* index of the next record of the sidebar loop
    output_file       \* the computed output name

mainVars == << pc, env, cwd, markdown_files, idx >>

convVars == << cpc, input_file, markdown_content, toc, title, html,
               current_level, item, output_file >>

vars == << pc, env, cwd, markdown_files, idx, stdout, docs,
           cpc, input_file, markdown_content, toc, title, html,
           current_level, item, output_file >>

EmptyDir == [ n \in {} |-> PartialPage ]

(***************************************************************************)
(* Inputs of one conversion.                                               *)
(***************************************************************************)
Hashes(n) == [ k \in 1..n |-> "#" ]

\* a line with n markers, one space and a one-letter text
MarkerLines == { Hashes(n) \o <<" ", "A">> : n \in 0..MaxHashes }

OtherLines ==
    { <<>>,
      <<"a">>,
      <<"#">>,
      <<"#", " ">>,
      <<"#", "a">>,
      <<" ", "#", "#", "\t", " ", "a", " ">>,
      <<"#", " ", "a", " ", " ", "b">>,
      <<"#", " ", "a", "\t", "b">>,
      <<"#", " ", "A", " ", "&", " ", "b", "-", "c", "!">>,
      <<"#", "#", " ", "#", " ", "a", "_", "1">> }

DocLines == MarkerLines \cup OtherLines

LineSeqs == UNION { [1..n -> DocLines] : n \in 0..MaxLines }

\* "# Title\n\n## A\n\n### B\n\n## C\n"
RoundTripInput ==
    Join(<< <<"#"," ","T","i","t","l","e">>, <<>>,
            <<"#","#"," ","A">>, <<>>,
            <<"#","#","#"," ","B">>, <<>>,
            <<"#","#"," ","C">>, <<>> >>, "\n")

Contents == { Join(ls, "\n") : ls \in LineSeqs } \cup { RoundTripInput }

Stems ==
    { <<"R","E","A","D","M","E">>,
      <<"R","e","a","d","M","e">>,
      <<"r","e","a","d","m","e","_","E","N">>,
      <<"C","O","N","T","R","I","B","U","T","I","N","G">>,
      <<"g","u","i","d","e">>,
      <<"m","y","_","N","O","T","E","S">> }

FileNames == { s \o Ext_md : s \in Stems }

(***************************************************************************)
(* SpecConvert: one call of convert_markdown_to_html(input_file, 'docs'),  *)
(* statement by statement, on a readable file and a writable directory.    *)
(***************************************************************************)
MainIdle ==
    /\ pc = "idle"
    /\ env = [ docs_dir |-> TRUE, logo |-> "missing" ]
    /\ markdown_files = <<>>
    /\ idx = 0

InitConvert ==
    /\ MainIdle
    /\ input_file \in FileNames
    /\ \E text \in Contents : cwd = << [ name |-> input_file, text |-> text, fault |-> "none" ] >>
    /\ stdout = <<>>
    /\ docs = EmptyDir
    /\ cpc = "read"
    /\ markdown_content = <<>>
    /\ toc = <<>>
    /\ title = <<>>
    /\ html = <<>>
    /\ current_level = 0
    /\ item = 0
    /\ output_file = <<>>

\* with open(input_file) as f: markdown_content = f.read()
ReadFile ==
    /\ cpc = "read"
    /\ markdown_content' = cwd[1].text
    /\ cpc' = "extract"
    /\ UNCHANGED << mainVars, stdout, docs, input_file, toc, title, html,
                    current_level, item, output_file >>

\* toc = extract_toc_from_markdown(markdown_content)
ExtractToc ==
    /\ cpc = "extract"
    /\ toc' = extract_toc_from_markdown(markdown_content)
    /\ cpc' = "title"
    /\ UNCHANGED << mainVars, stdout, docs, input_file, markdown_content, title,
                    html, current_level, item, output_file >>

\* title_match = re.match(...); title = group(1) or the fallback
ExtractTitle ==
    /\ cpc = "title"
    /\ title' = PageTitle(input_file, markdown_content)
    /\ cpc' = "sidebar"
    /\ UNCHANGED << mainVars, stdout, docs, input_file, markdown_content, toc,
                    html, current_level, item, output_file >>

\* generate_sidebar_toc up to the loop: the early return, or the fragment head
SidebarBegin ==
    /\ cpc = "sidebar"
    /\ IF toc = <<>>
       THEN /\ html' = NoTocFragment
            /\ cpc' = "filename"
            /\ UNCHANGED << current_level, item >>
       ELSE /\ html' = SidebarHead
            /\ current_level' = 1
            /\ item' = 1
            /\ cpc' = "sidebar_loop"
    /\ UNCHANGED << mainVars, stdout, docs, input_file, markdown_content, toc,
                    title, output_file >>

\* one iteration of "for item in toc"
SidebarItem ==
    /\ cpc = "sidebar_loop"
    /\ item <= Len(toc)
    /\ html' = html \o Nesting(toc[item].level, current_level) \o ListItem(item)
    /\ current_level' = toc[item].level
    /\ item' = item + 1
    /\ UNCHANGED << mainVars, stdout, docs, cpc, input_file, markdown_content,
                    toc, title, output_file >>

\* the closing loop and the tail after the last record
SidebarEnd ==
    /\ cpc = "sidebar_loop"
    /\ item > Len(toc)
    /\ html' = html \o Closing(current_level)
    /\ cpc' = "filename"
    /\ UNCHANGED << mainVars, stdout, docs, input_file, markdown_content, toc,
                    title, current_level, item, output_file >>

\* filename = Path(input_file).stem ... output_file = os.path.join(...)
NameOutput ==
    /\ cpc = "filename"
    /\ output_file' = OutputName(input_file)
    /\ cpc' = "write"
    /\ UNCHANGED << mainVars, stdout, docs, input_file, markdown_content, toc,
                    title, html, current_level, item >>

\* the page is written and the success line printed
WritePage ==
    /\ cpc = "write"
    /\ docs' = WriteFile(docs, output_file,
                         [ title |-> title, sidebar |-> html, body |-> markdown_content ])
    /\ stdout' = Append(stdout, Line("converted", input_file, 0))
    /\ cpc' = "done"
    /\ UNCHANGED << mainVars, input_file, markdown_content, toc, title, html,
                    current_level, item, output_file >>

NextConvert ==
    \/ ReadFile
    \/ ExtractToc
    \/ ExtractTitle
    \/ SidebarBegin
    \/ SidebarItem
    \/ SidebarEnd
    \/ NameOutput
    \/ WritePage

SpecConvert == InitConvert /\ [][NextConvert]_vars

(***************************************************************************)
(* Properties of one conversion (checked under SpecConvert).               *)
(***************************************************************************)
SidebarBuilt == cpc \in {"filename", "write", "done"}

\* two characters that are the same letter in either case, or equal
SameLetter(c, d) ==
    \/ c = d
    \/ \E k \in DOMAIN UpperCase : {c, d} = {UpperCase[k], LowerCase[k]}

EqualsAnyCase(s, word) ==
    Len(s) = Len(word) /\ \A k \in 1..Len(s) : SameLetter(s[k], word[k])

ExpectedOutputName(stem) ==
    IF EqualsAnyCase(stem, Str_readme) THEN Str_index \o Ext_html
    ELSE IF EqualsAnyCase(stem, Str_readme_en) THEN Str_index_en \o Ext_html
    ELSE IF EqualsAnyCase(stem, Str_contributing) THEN Str_contributing \o Ext_html
    ELSE stem \o Ext_html

\* C2: the output name is index.html for a stem equal to 'readme' in any
\* letter case, index_en.html for 'readme_en', contributing.html for
\* 'contributing', and the unchanged stem plus .html for every other name.
C2_OutputNameRule ==
    cpc \in {"write", "done"} =>
        output_file = ExpectedOutputName(SubSeq(input_file, 1, Len(input_file) - Len(Ext_md)))

C2_Witness ==
    /\ cpc = "done"
    /\ input_file = <<"R","e","a","d","M","e">> \o Ext_md
    /\ output_file = Str_index \o Ext_html
    /\ output_file \in DOMAIN docs

Level1Records == SelectSeq(toc, LAMBDA r : r.level = 1)

\* C4: the page title is the text of the first level-1 heading whenever the
\* document has a level-1 heading line, wherever that line is, and the
\* filename-derived fallback only when it has none.
C4_TitleIsFirstLevel1Heading ==
    cpc \in {"sidebar", "sidebar_loop", "filename", "write", "done"} =>
        IF Level1Records # <<>>
        THEN title = Level1Records[1].title
        ELSE title = FallbackTitle(input_file)

\* a trimmed line made of one to six '#', then whitespace, then text
IsHeadingLine(t) ==
    /\ LeadingHashes(t) \in 1..6
    /\ Len(t) > LeadingHashes(t)
    /\ IsSpace(t[LeadingHashes(t) + 1])
    /\ \E k \in (LeadingHashes(t) + 2)..Len(t) : ~IsSpace(t[k])

NewlineCount(s) == Cardinality({ k \in 1..Len(s) : s[k] = "\n" })

TrimmedLines(s) == [ k \in 1..Len(Split(s, "\n")) |-> Strip(Split(s, "\n")[k]) ]

HeadingLines(s) == SelectSeq(TrimmedLines(s), IsHeadingLine)

\* C5: the outline has exactly one record per line that, trimmed, is one to
\* six '#', whitespace, then text, and none for any other line; the records
\* are in document order, level is the marker count, title is the trimmed
\* remainder, and the outline is no longer than the number of input lines.
C5_OutlineMatchesHeadingLines ==
    cpc \in {"title", "sidebar", "sidebar_loop", "filename", "write", "done"} =>
        /\ Len(toc) = Len(HeadingLines(markdown_content))
        /\ \A k \in 1..Len(toc) :
              LET t == HeadingLines(markdown_content)[k]
              IN  /\ toc[k].level = LeadingHashes(t)
                  /\ toc[k].level \in 1..6
                  /\ toc[k].title = Strip(SubSeq(t, LeadingHashes(t) + 1, Len(t)))
        /\ Len(toc) <= NewlineCount(markdown_content) + 1
        /\ (markdown_content = <<>> => toc = <<>>)

C5_Witness ==
    /\ cpc = "done"
    /\ LeadingHashes(markdown_content) = 7
    /\ NewlineCount(markdown_content) = 1
    /\ Len(toc) = 1
    /\ toc[1].level = 6

\* each maximal run of whitespace replaced by one hyphen
RECURSIVE CollapseWhitespace(_)
CollapseWhitespace(s) ==
    IF s = <<>> THEN <<>>
    ELSE IF IsSpace(s[1])
         THEN <<"-">> \o CollapseWhitespace(SubSeq(s, FirstNonSpace(s), Len(s)))
         ELSE <<s[1]>> \o CollapseWhitespace(Tail(s))

\* C6: the slug is the title lower-cased, stripped of characters outside
\* {word, whitespace, hyphen}, trimmed, with each run of whitespace replaced
\* by a single hyphen; it contains no whitespace character.
C6_SlugCollapsesWhitespace ==
    \A k \in 1..Len(toc) :
        /\ toc[k].slug = CollapseWhitespace(Strip(StripSpecial(Lower(toc[k].title))))
        /\ \A j \in 1..Len(toc[k].slug) : ~IsSpace(toc[k].slug[j])

RoundTripOutline ==
    << [ level |-> 1, title |-> <<"T","i","t","l","e">>, slug |-> <<"t","i","t","l","e">> ],
       [ level |-> 2, title |-> <<"A">>, slug |-> <<"a">> ],
       [ level |-> 3, title |-> <<"B">>, slug |-> <<"b">> ],
       [ level |-> 2, title |-> <<"C">>, slug |-> <<"c">> ] >>

\* position of the list item of record r in the fragment
ItemPos(r) == CHOOSE p \in 1..Len(html) : html[p].tag = "li" /\ html[p].rec = r

\* number of tags t coming from literal c strictly between positions lo and hi
TagsBetween(t, c, lo, hi) ==
    Cardinality({ p \in (lo + 1)..(hi - 1) : html[p].tag = t /\ html[p].cls = c })

\* number of closing list tags of any origin after position lo
ListClosesAfter(lo) ==
    Cardinality({ p \in (lo + 1)..Len(html) : html[p].tag = "/ul" })

\* C7 (as stated): for the round-trip input the outline is Title, A, B, C and
\* one nested-wrapper open appears after the item of A, one more after the
\* item of B, one close before the item of C and two closes after it.
C7_OpensAfterAandB ==
    (SidebarBuilt /\ markdown_content = RoundTripInput) =>
        /\ toc = RoundTripOutline
        /\ TagsBetween("ul", "nested-toc", ItemPos(2), ItemPos(3)) = 1
        /\ TagsBetween("ul", "nested-toc", ItemPos(3), Len(html) + 1) = 1
        /\ TagsBetween("/ul", "nested-toc", ItemPos(3), ItemPos(4)) = 1
        /\ ListClosesAfter(ItemPos(4)) = 2

\* C7 (amended): for the round-trip input the outline is Title, A, B, C; one
\* nested-wrapper open lies between the items of Title and A, one more
\* between the items of A and B and none after the item of B; one
\* nested-wrapper close lies between the items of B and C; after the item of
\* C come one nested-wrapper close and the close of the outer list.
C7_OpensBeforeAandB ==
    (SidebarBuilt /\ markdown_content = RoundTripInput) =>
        /\ toc = RoundTripOutline
        /\ TagsBetween("ul", "nested-toc", 0, ItemPos(1)) = 0
        /\ TagsBetween("ul", "nested-toc", ItemPos(1), ItemPos(2)) = 1
        /\ TagsBetween("ul", "nested-toc", ItemPos(2), ItemPos(3)) = 1
        /\ TagsBetween("ul", "nested-toc", ItemPos(3), Len(html) + 1) = 0
        /\ TagsBetween("/ul", "nested-toc", 0, ItemPos(3)) = 0
        /\ TagsBetween("/ul", "nested-toc", ItemPos(3), ItemPos(4)) = 1
        /\ TagsBetween("/ul", "nested-toc", ItemPos(4), Len(html) + 1) = 1
        /\ ListClosesAfter(ItemPos(4)) = 2
        /\ html[Len(html)] = Tag("/ul", "toc-list", 0)

C7_Witness ==
    /\ cpc = "done"
    /\ markdown_content = RoundTripInput
    /\ Len(toc) = 4
    /\ docs[output_file].sidebar = html

NestedOpens == TagsBetween("ul", "nested-toc", 0, Len(html) + 1)

NestedCloses == TagsBetween("/ul", "nested-toc", 0, Len(html) + 1)

\* C9: for every non-empty outline, after each record is processed the number
\* of nested wrappers opened minus the number closed is current_level - 1 and
\* never negative, and after the final closing step opens equal closes.
C9_WrapperBalance ==
    /\ cpc = "sidebar_loop" =>
          /\ NestedOpens - NestedCloses = current_level - 1
          /\ NestedOpens - NestedCloses >= 0
    /\ (SidebarBuilt /\ toc # <<>>) => NestedOpens = NestedCloses

C9_Witness ==
    /\ cpc = "sidebar_loop"
    /\ item = 3
    /\ toc[1].level = 3
    /\ toc[2].level = 1
    /\ NestedOpens = 2
    /\ NestedCloses = 2

\* reading the list tags of h from position p with the stack of open tags:
\* every close matches the most recently opened unclosed tag, a list item
\* opens inside a list, and nothing is left open at the end
RECURSIVE Balanced(_, _, _)
Balanced(h, p, stack) ==
    IF p > Len(h) THEN stack = <<>>
    ELSE IF h[p].tag \in {"ul", "li"}
         THEN /\ (h[p].tag = "li" => stack # <<>> /\ stack[Len(stack)] = "ul")
              /\ Balanced(h, p + 1, Append(stack, h[p].tag))
    ELSE IF h[p].tag \in {"/ul", "/li"}
         THEN /\ stack # <<>>
              /\ stack[Len(stack)] = (IF h[p].tag = "/ul" THEN "ul" ELSE "li")
              /\ Balanced(h, p + 1, SubSeq(stack, 1, Len(stack) - 1))
    ELSE Balanced(h, p + 1, stack)

\* C10: for every non-empty outline the emitted fragment is a properly nested
\* list: every close tag matches the most recently opened unclosed tag, every
\* list item opened for a record is closed, and nothing stays open.
C10_FragmentProperlyNested ==
    (SidebarBuilt /\ toc # <<>>) => Balanced(html, 1, <<>>)

(***************************************************************************)
(* Spec: a run of main() over the working directory.                       *)
(***************************************************************************)
\* the markdown files a working directory may hold
DocPool ==
    { [ name |-> <<"R","E","A","D","M","E">> \o Ext_md, text |-> <<"#", " ", "A">> ],
      [ name |-> Str_index \o Ext_md,                   text |-> <<"a">> ],
      [ name |-> <<"g","u","i","d","e">> \o Ext_md,     text |-> <<"#", "#", " ", "A">> ],
      [ name |-> Str_readme \o Ext_md,                  text |-> <<>> ] }

\* where a conversion raises: nowhere, on open/read of the input, in
\* md.convert, or on open/write of the output
Faults == { "none", "read", "render", "write" }

Files == { [ name |-> d.name, text |-> d.text, fault |-> f ] : d \in DocPool, f \in Faults }

\* the directory listings glob may return: distinct names, any order
Listings ==
    UNION { { l \in [1..n -> Files] :
                \A a, b \in 1..n : a # b => l[a].name # l[b].name } : n \in 0..MaxDocs }

\* docs/logo/logo.png
LogoName == <<"l","o","g","o","/","l","o","g","o",".","p","n","g">>

LogoAsset == [ title |-> <<>>, sidebar |-> <<>>, body |-> LogoName ]

Init ==
    /\ pc = "start"
    /\ env \in [ docs_dir : BOOLEAN, logo : {"missing", "present", "copy_fails", "dir_fails"} ]
    /\ cwd \in Listings
    /\ markdown_files = <<>>
    /\ idx = 0
    /\ stdout = <<>>
    /\ docs = EmptyDir
    /\ cpc = "idle"
    /\ input_file = <<>>
    /\ markdown_content = <<>>
    /\ toc = <<>>
    /\ title = <<>>
    /\ html = <<>>
    /\ current_level = 0
    /\ item = 0
    /\ output_file = <<>>

\* os.makedirs('docs', exist_ok=True): an error here leaves main()
MakeDocsDir ==
    /\ pc = "start"
    /\ pc' = IF env.docs_dir THEN "logo" ELSE "aborted"
    /\ UNCHANGED << env, cwd, markdown_files, idx, stdout, docs, convVars >>

\* where copy_logo_if_exists() leaves main() when os.makedirs(dest_dir) raises:
\* the call is outside the try block, so the error leaves main() too
AfterLogoDirError == "aborted"

\* copy_logo_if_exists(), whole
copy_logo_if_exists ==
    /\ pc = "logo"
    /\ IF env.logo = "dir_fails"
       THEN /\ pc' = AfterLogoDirError
            /\ UNCHANGED << stdout, docs >>
       ELSE /\ pc' = "glob"
            /\ IF env.logo = "present"
               THEN /\ docs' = WriteFile(docs, LogoName, LogoAsset)
                    /\ stdout' = Append(stdout, Line("logo_copied", LogoName, 0))
               ELSE IF env.logo = "copy_fails"
               THEN /\ stdout' = Append(stdout, Line("logo_error", LogoName, 0))
                    /\ UNCHANGED docs
               ELSE /\ stdout' = Append(stdout, Line("logo_missing", LogoName, 0))
                    /\ UNCHANGED docs
    /\ UNCHANGED << env, cwd, markdown_files, idx, convVars >>

\* markdown_files = glob.glob("*.md") and the report of what was found
Discover ==
    /\ pc = "glob"
    /\ markdown_files' = cwd
    /\ IF cwd = <<>>
       THEN /\ stdout' = Append(stdout, Line("no_files", <<>>, 0))
            /\ pc' = "done"
            /\ UNCHANGED idx
       ELSE /\ stdout' = Append(stdout, Line("found", <<>>, Len(cwd)))
            /\ pc' = "loop"
            /\ idx' = 1
    /\ UNCHANGED << env, cwd, docs, convVars >>

\* the batch loop without its try/except: the error leaves main()
AfterConvertError_Propagates == "aborted"

\* where the except clause of the batch loop leaves main(): in the loop
AfterConvertError == "loop"

\* one iteration of "for md_file in markdown_files": the try block runs
\* convert_markdown_to_html(md_file, 'docs'), the except clause reports
ConvertNext ==
    /\ pc = "loop"
    /\ idx <= Len(markdown_files)
    /\ LET md_file == markdown_files[idx]
       IN  IF md_file.fault = "none"
           THEN /\ docs' = WriteFile(docs, OutputName(md_file.name),
                                     Page(md_file.name, md_file.text))
                /\ stdout' = Append(stdout, Line("converted", md_file.name, 0))
                /\ pc' = "loop"
           ELSE /\ stdout' = Append(stdout, Line("error", md_file.name, 0))
                /\ pc' = AfterConvertError
                /\ IF md_file.fault = "write"
                   THEN \* open() failed, or it created the file and write() failed
                        \/ UNCHANGED docs
                        \/ docs' = WriteFile(docs, OutputName(md_file.name), PartialPage)
                   ELSE UNCHANGED docs
    /\ idx' = idx + 1
    /\ UNCHANGED << env, cwd, markdown_files, convVars >>

\* the completion message after the loop
Complete ==
    /\ pc = "loop"
    /\ idx > Len(markdown_files)
    /\ stdout' = Append(stdout, Line("complete", <<>>, 0))
    /\ pc' = "done"
    /\ UNCHANGED << env, cwd, markdown_files, idx, docs, convVars >>

Next ==
    \/ MakeDocsDir
    \/ copy_logo_if_exists
    \/ Discover
    \/ ConvertNext
    \/ Complete

Spec == Init /\ [][Next]_vars

(***************************************************************************)
(* Properties of a run of main() (checked under Spec).                     *)
(***************************************************************************)
\* position in stdout of the "Found n markdown files" line
FoundPos == CHOOSE p \in 1..Len(stdout) : stdout[p].kind = "found"

\* the line a document must have produced
OutcomeLine(f) ==
    Line(IF f.fault = "none" THEN "converted" ELSE "error", f.name, 0)

\* C1: for a non-empty list of documents of which any subset fails, every
\* document is attempted exactly once in order, a failing one gives one error
\* line naming it, another one success line, and the completion message is
\* always reported: no failure ends the run once the loop has begun.
C1_BatchContinuesPastFailures ==
    /\ pc \in {"loop", "done"} /\ markdown_files # <<>> =>
          /\ \E p \in 1..Len(stdout) : stdout[p].kind = "found"
          /\ LET done == IF pc = "done" THEN Len(markdown_files) ELSE idx - 1
             IN  /\ Len(stdout) = FoundPos + done + (IF pc = "done" THEN 1 ELSE 0)
                 /\ \A k \in 1..done : stdout[FoundPos + k] = OutcomeLine(markdown_files[k])
          /\ pc = "done" => stdout[Len(stdout)] = Line("complete", <<>>, 0)
    /\ pc = "aborted" => markdown_files = <<>>

C1_Witness ==
    /\ pc = "done"
    /\ Len(markdown_files) = 3
    /\ markdown_files[2].fault = "render"
    /\ Cardinality({ p \in 1..Len(stdout) : stdout[p].kind = "converted" }) = 2
    /\ Cardinality({ p \in 1..Len(stdout) : stdout[p].kind = "error" }) = 1
    /\ stdout[Len(stdout)].kind = "complete"

HtmlFiles == (DOMAIN docs) \ {LogoName}

\* C3: after a run in which no document fails, any two distinct input
\* documents were written to two distinct output files, so the output
\* directory holds one page per document and none was overwritten.
C3_OnePagePerDocument ==
    (pc = "done" /\ \A k \in 1..Len(markdown_files) : markdown_files[k].fault = "none") =>
        /\ Cardinality(HtmlFiles) = Len(markdown_files)
        /\ \A k \in 1..Len(markdown_files) :
              \E n \in HtmlFiles : docs[n].body = markdown_files[k].text

\* C8: no failure of the logo step aborts the run: with the output directory
\* in place, main() always goes on to discovery, whatever the logo step met.
C8_LogoStepNeverAborts ==
    env.docs_dir => pc # "aborted"

=============================================================================
